---- MODULE Spec2Model ----
(***************************************************************************)
(* Model of src/app.py: a single Lambda handler doing CRUD on one DynamoDB *)
(* table behind API Gateway (REST "legacy" events and HTTP API "v2"        *)
(* events).                                                                *)
(*                                                                         *)
(* Python values are tagged records: [t |-> "none"], [t |-> "str", v |->   *)
(* <<chars>>], [t |-> "text", s |-> "json text"], [t |-> "dict", d |-> f]  *)
(* with f a function from key names to values, [t |-> "list"], [t |->      *)
(* "int"], [t |-> "decimal"], [t |-> "float"], [t |-> "bool"], each with   *)
(* a payload field of its own.  A dict key that is absent is absent from   *)
(* DOMAIN f.  Strings the code slices, splits or upper-cases are sequences *)
(* of one-character strings.                                               *)
(***************************************************************************)
EXTENDS Integers, Sequences, FiniteSets, TLC

\* table:     the DynamoDB table, a function from the stored keys to their items
\* hist:      for every key ever written or deleted, the last such call on it
\* generated: the identifiers uuid.uuid4() has returned, in order
\* procs:     the invocations in flight, one per execution environment
VARIABLES table, hist, generated, procs

vars == <<table, hist, generated, procs>>

(***************************************************************************)
(* Bounds of the model.                                                    *)
(***************************************************************************)
\* number of identifiers uuid.uuid4() hands out before creates without an id stop
MaxUuid == 2
\* number of concurrently running invocations in SpecConc
NumProcs == 2

(***************************************************************************)
(* Python values.                                                          *)
(***************************************************************************)
PyNone == [t |-> "none"]
PyStr(s) == [t |-> "str", v |-> s]
PyText(s) == [t |-> "text", s |-> s]
PyDict(f) == [t |-> "dict", d |-> f]
PyList == [t |-> "list"]
\* the list of items scan returns, without its order: a set
PyItems(l) == [t |-> "items", l |-> l]
PyInt(n) == [t |-> "int", n |-> n]
PyBool(b) == [t |-> "bool", b |-> b]
EmptyDict == PyDict(<<>>)

IsDict(x) == x.t = "dict"

\* bool(x)
Truthy(x) ==
  CASE x.t = "none" -> FALSE
    [] x.t = "str" -> x.v # <<>>
    [] x.t = "text" -> x.s # ""
    [] x.t = "dict" -> DOMAIN x.d # {}
    [] x.t = "bool" -> x.b
    [] x.t = "int" -> x.n # 0
    [] x.t = "list" -> TRUE
    [] OTHER -> TRUE

\* d.get(k, default) on a dict d
DictGet(x, k, default) == IF k \in DOMAIN x.d THEN x.d[k] ELSE default

\* a or b
PyOr(a, b) == IF Truthy(a) THEN a ELSE b

(***************************************************************************)
(* String constants.                                                       *)
(***************************************************************************)
P_items == <<"/", "i", "t", "e", "m", "s">>
P_items_slash == <<"/", "i", "t", "e", "m", "s", "/">>
P_items_a1 == <<"/", "i", "t", "e", "m", "s", "/", "a", "1">>
P_items_a1_x == <<"/", "i", "t", "e", "m", "s", "/", "a", "1", "/", "x">>
P_prod_items_a1 == <<"/", "p", "r", "o", "d", "/", "i", "t", "e", "m", "s", "/", "a", "1">>
P_prod_items == <<"/", "p", "r", "o", "d", "/", "i", "t", "e", "m", "s">>
P_prod == <<"/", "p", "r", "o", "d">>
P_products_a1 == <<"/", "p", "r", "o", "d", "u", "c", "t", "s", "/", "a", "1">>
P_proditems_a1 == <<"/", "p", "r", "o", "d", "i", "t", "e", "m", "s", "/", "a", "1">>
P_other == <<"/", "o", "t", "h", "e", "r">>
S_prod == <<"p", "r", "o", "d">>
S_items == <<"i", "t", "e", "m", "s">>
GET == <<"G", "E", "T">>
POST == <<"P", "O", "S", "T">>
PUT == <<"P", "U", "T">>
DELETE == <<"D", "E", "L", "E", "T", "E">>
OPTIONS == <<"O", "P", "T", "I", "O", "N", "S">>
PATCH == <<"P", "A", "T", "C", "H">>
get_lc == <<"g", "e", "t">>
options_lc == <<"o", "p", "t", "i", "o", "n", "s">>
Id_a1 == <<"a", "1">>
Id_zzz == <<"z", "z", "z">>
Slash == <<"/">>

(***************************************************************************)
(* str methods.                                                            *)
(***************************************************************************)
\* s.startswith(prefix)
StartsWith(s, prefix) ==
  /\ Len(prefix) <= Len(s)
  /\ SubSeq(s, 1, Len(prefix)) = prefix

\* s[n:]
SliceFrom(s, n) == SubSeq(s, n + 1, Len(s))

\* s.split("/"): the pieces between the separators, empty pieces included
RECURSIVE SplitAcc(_, _, _)
SplitAcc(s, cur, acc) ==
  IF s = <<>> THEN Append(acc, cur)
  ELSE IF Head(s) = "/" THEN SplitAcc(Tail(s), <<>>, Append(acc, cur))
  ELSE SplitAcc(Tail(s), Append(cur, Head(s)), acc)

Split(s) == SplitAcc(s, <<>>, <<>>)

\* [p for p in parts if p]
NonEmptyParts(parts) == SelectSeq(parts, LAMBDA p : p # <<>>)

UpperChar(c) ==
  CASE c = "g" -> "G" [] c = "e" -> "E" [] c = "t" -> "T" [] c = "o" -> "O"
    [] c = "p" -> "P" [] c = "i" -> "I" [] c = "n" -> "N" [] c = "s" -> "S"
    [] OTHER -> c

\* s.upper()
Upper(s) == [i \in 1..Len(s) |-> UpperChar(s[i])]

(***************************************************************************)
(* Results of calls that may raise.                                        *)
(***************************************************************************)
Ok(x) == [ok |-> TRUE, val |-> x]
Raised(name) == [ok |-> FALSE, exc |-> name]

(***************************************************************************)
(* json.loads and base64.b64decode on the request bodies of the model,     *)
(* each text mapped to what CPython returns or raises for it.              *)
(***************************************************************************)
T_name == "{\"name\": \"x\"}"
T_a1 == "{\"id\": \"a1\", \"name\": \"x\"}"
T_zzz == "{\"id\": \"zzz\", \"qty\": 7}"
T_emptyid == "{\"id\": \"\", \"name\": \"x\"}"
T_nullid == "{\"id\": null, \"name\": \"x\"}"
T_list == "[1, 2]"
T_null == "null"
T_bad == "{bad"
T_empty == ""
\* base64 of T_zzz
B64_zzz == "eyJpZCI6ICJ6enoiLCAicXR5IjogN30="

\* json.loads(text)
JsonLoads(text) ==
  CASE text = T_name -> Ok(PyDict("name" :> PyStr(<<"x">>)))
    [] text = T_a1 -> Ok(PyDict("id" :> PyStr(Id_a1) @@ "name" :> PyStr(<<"x">>)))
    [] text = T_zzz -> Ok(PyDict("id" :> PyStr(Id_zzz) @@ "qty" :> PyInt(7)))
    [] text = T_emptyid -> Ok(PyDict("id" :> PyStr(<<>>) @@ "name" :> PyStr(<<"x">>)))
    [] text = T_nullid -> Ok(PyDict("id" :> PyNone @@ "name" :> PyStr(<<"x">>)))
    [] text = T_list -> Ok(PyList)
    [] text = T_null -> Ok(PyNone)
    [] OTHER -> Raised("JSONDecodeError")

\* base64.b64decode(text).decode("utf-8")
B64DecodeUtf8(text) ==
  CASE text = B64_zzz -> Ok(PyText(T_zzz))
    [] text = T_null -> Raised("UnicodeDecodeError")
    [] OTHER -> Raised("binascii.Error")

(***************************************************************************)
(* resp and DecimalEncoder (src/app.py 17-35).                             *)
(***************************************************************************)
\* DecimalEncoder.default: a Decimal without fractional part becomes an int,
\* any other Decimal a float.  A Decimal is held in thousandths.
DecimalDefault(o) ==
  IF o.milli % 1000 = 0 THEN PyInt(o.milli \div 1000)
  ELSE [t |-> "float", milli |-> o.milli]

\* json.dumps(body, cls=DecimalEncoder): the JSON value the text denotes
RECURSIVE JsonDumps(_)
JsonDumps(x) ==
  CASE x.t = "dict" -> PyDict([k \in DOMAIN x.d |-> JsonDumps(x.d[k])])
    [] x.t = "items" -> PyItems({JsonDumps(i) : i \in x.l})
    [] x.t = "decimal" -> DecimalDefault(x)
    [] OTHER -> x

CorsHeaders ==
  [ContentType |-> "application/json",
   AccessControlAllowOrigin |-> "*",
   AccessControlAllowHeaders |-> "*",
   AccessControlAllowMethods |-> "GET,POST,PUT,DELETE,OPTIONS"]

resp(status, body) ==
  [statusCode |-> status, headers |-> CorsHeaders, body |-> JsonDumps(body)]

Message(m) == PyDict("message" :> PyText(m))

(***************************************************************************)
(* normalize_event (src/app.py 37-64).                                     *)
(***************************************************************************)
\* lines 43-47: the stage prefix is cut off the raw path
StripStage(raw_path, stage) ==
  IF Truthy(stage) /\ StartsWith(raw_path, Slash \o stage.v)
  THEN LET cut == SliceFrom(raw_path, Len(stage.v) + 1)
       IN IF ~StartsWith(cut, Slash) THEN Slash \o cut ELSE cut
  ELSE raw_path

\* lines 49-55: the body, base64-decoded when flagged, parsed as JSON; a text
\* json.loads rejects gives {}, a failing base64 decode raises
DecodeBody(event) ==
  LET body == DictGet(event, "body", PyNone)
      plain == IF Truthy(body) /\ Truthy(DictGet(event, "isBase64Encoded", PyNone))
               THEN B64DecodeUtf8(body.s)
               ELSE Ok(body)
  IN IF ~plain.ok THEN plain
     ELSE IF Truthy(plain.val)
          THEN LET j == JsonLoads(plain.val.s)
               IN IF j.ok THEN Ok(j.val) ELSE Ok(EmptyDict)
          ELSE Ok(EmptyDict)

\* lines 57-62: pathParameters.id, else the second of exactly two segments
\* of which the first is "items"
ResolveId(event, raw_path) ==
  LET path_params == PyOr(DictGet(event, "pathParameters", PyNone), EmptyDict)
      item_id == DictGet(path_params, "id", PyNone)
      parts == NonEmptyParts(Split(raw_path))
  IN IF ~Truthy(item_id) /\ Len(parts) = 2 /\ parts[1] = S_items
     THEN PyStr(parts[2])
     ELSE item_id

normalize_event(event) ==
  LET ctx == DictGet(event, "requestContext", EmptyDict)
  IN IF ~IsDict(ctx) THEN Raised("AttributeError")
     ELSE
     LET http == DictGet(ctx, "http", EmptyDict)
     IN IF ~IsDict(http) THEN Raised("AttributeError")
        ELSE
        LET method == PyOr(PyOr(DictGet(http, "method", PyNone),
                                DictGet(event, "httpMethod", PyNone)),
                           PyStr(<<>>))
            raw0 == PyOr(PyOr(DictGet(event, "rawPath", PyNone),
                              DictGet(event, "path", PyNone)),
                         PyStr(Slash))
            raw_path == StripStage(raw0.v, DictGet(ctx, "stage", PyNone))
            data == DecodeBody(event)
        IN IF ~data.ok THEN data
           ELSE Ok([method |-> Upper(method.v),
                    raw_path |-> raw_path,
                    data |-> data.val,
                    item_id |-> ResolveId(event, raw_path)])

(***************************************************************************)
(* The operation functions (src/app.py 66-100).  Each returns a response   *)
(* at once or issues its one storage call; what it returns after the call  *)
(* is the call's continuation.                                             *)
(***************************************************************************)
NoKey == <<>>
Return(r) == [kind |-> "return", resp |-> r]
Call(api, key, item, ret) ==
  [kind |-> "call", api |-> api, key |-> key, item |-> item, ret |-> ret]

\* the key DynamoDB files an item under: its "id" attribute
KeyOf(item) == item.d["id"].v

\* TABLE.scan(Limit=50)
ScanLimit == 50

\* lines 66-68
list_items == Call("scan", NoKey, PyNone, PyNone)

list_items_result(res) ==
  resp(200, PyDict("items" :> DictGet(res, "Items", PyItems({}))
                   @@ "count" :> DictGet(res, "Count", PyInt(0))))

\* {k: v for k, v in data.items() if k != "id"}
WithoutId(data) == [k \in DOMAIN data.d \ {"id"} |-> data.d[k]]

\* create_item without its item.update(...): only the id is kept
create_item_id_only(data, fresh) ==
  IF ~IsDict(data) THEN Return(resp(400, Message("Invalid JSON")))
  ELSE LET item == PyDict("id" :> PyOr(DictGet(data, "id", PyNone), PyStr(fresh)))
       IN Call("put_item", KeyOf(item), item, resp(201, item))

\* lines 70-76; fresh is what str(uuid.uuid4()) returns when it is called
create_item(data, fresh) ==
  IF ~IsDict(data) THEN Return(resp(400, Message("Invalid JSON")))
  ELSE LET item == PyDict("id" :> PyOr(DictGet(data, "id", PyNone), PyStr(fresh))
                          @@ WithoutId(data))
       IN Call("put_item", KeyOf(item), item, resp(201, item))

\* lines 78-81
read_item(item_id) ==
  IF ~Truthy(item_id) THEN Return(resp(400, Message("Missing id")))
  ELSE Call("get_item", item_id.v, PyNone, PyNone)

\* read_item without its not-found branch
read_item_result_no404(res) == resp(200, DictGet(res, "Item", EmptyDict))

\* lines 82-85
read_item_result(res) ==
  LET item == DictGet(res, "Item", PyNone)
  IN IF ~Truthy(item) THEN resp(404, Message("Not found"))
     ELSE resp(200, item)

\* update_item taking its id as create_item does, data.get("id") or item_id:
\* an id in the body wins
update_item_body_id_wins(item_id, data) ==
  IF ~Truthy(item_id) THEN Return(resp(400, Message("Missing id")))
  ELSE IF ~IsDict(data) THEN Return(resp(400, Message("Invalid JSON")))
  ELSE LET item == PyDict("id" :> PyOr(DictGet(data, "id", PyNone), item_id)
                          @@ WithoutId(data))
       IN Call("put_item", KeyOf(item), item, resp(200, item))

\* lines 87-94
update_item(item_id, data) ==
  IF ~Truthy(item_id) THEN Return(resp(400, Message("Missing id")))
  ELSE IF ~IsDict(data) THEN Return(resp(400, Message("Invalid JSON")))
  ELSE LET item == PyDict("id" :> item_id @@ WithoutId(data))
       IN Call("put_item", KeyOf(item), item, resp(200, item))

\* delete_item that takes a missing id for nothing to delete
delete_item_unchecked(item_id) ==
  IF ~Truthy(item_id) THEN Return(resp(204, EmptyDict))
  ELSE Call("delete_item", item_id.v, PyNone, resp(204, EmptyDict))

\* delete_item that answers without calling the table
delete_item_no_call(item_id) ==
  IF ~Truthy(item_id) THEN Return(resp(400, Message("Missing id")))
  ELSE Return(resp(204, EmptyDict))

\* lines 96-100
delete_item(item_id) ==
  IF ~Truthy(item_id) THEN Return(resp(400, Message("Missing id")))
  ELSE Call("delete_item", item_id.v, PyNone, resp(204, EmptyDict))

(***************************************************************************)
(* handler (src/app.py 102-142).                                           *)
(***************************************************************************)
\* (event.get("requestContext", {}).get("http", {}) or {}).get("method")
RawHttpMethod(event) ==
  LET ctx == DictGet(event, "requestContext", EmptyDict)
  IN IF ~IsDict(ctx) THEN Raised("AttributeError")
     ELSE LET http == PyOr(DictGet(ctx, "http", EmptyDict), EmptyDict)
          IN IF ~IsDict(http) THEN Raised("AttributeError")
             ELSE Ok(DictGet(http, "method", PyNone))

\* lines 103-110: the summary that is logged, built outside the try
LogSummary(event) ==
  LET ctx == DictGet(event, "requestContext", EmptyDict)
      m == RawHttpMethod(event)
  IN IF ~IsDict(ctx) THEN Raised("AttributeError")
     ELSE IF ~m.ok THEN m
     ELSE Ok(PyDict("path" :> PyOr(DictGet(event, "rawPath", PyNone),
                                   DictGet(event, "path", PyNone))
                    @@ "stage" :> DictGet(ctx, "stage", PyNone)
                    @@ "method" :> PyOr(m.val, DictGet(event, "httpMethod", PyNone))))

IsStr(x, s) == x.t = "str" /\ x.v = s

\* lines 112-113, evaluated after the log call returned
IsOptionsRequest(event) ==
  \/ IsStr(RawHttpMethod(event).val, OPTIONS)
  \/ IsStr(DictGet(event, "httpMethod", PyNone), OPTIONS)

\* the router with the item routes tested on the prefix "/items"
RouteLoose(method, raw_path) ==
  IF raw_path = P_items /\ method = GET THEN "list"
  ELSE IF raw_path = P_items /\ method = POST THEN "create"
  ELSE IF StartsWith(raw_path, P_items) /\ method = GET THEN "read"
  ELSE IF StartsWith(raw_path, P_items) /\ method = PUT THEN "update"
  ELSE IF StartsWith(raw_path, P_items) /\ method = DELETE THEN "delete"
  ELSE "unsupported"

\* lines 119-133: the operation a normalized (method, path) selects
Route(method, raw_path) ==
  IF raw_path = P_items /\ method = GET THEN "list"
  ELSE IF raw_path = P_items /\ method = POST THEN "create"
  ELSE IF StartsWith(raw_path, P_items_slash) /\ method = GET THEN "read"
  ELSE IF StartsWith(raw_path, P_items_slash) /\ method = PUT THEN "update"
  ELSE IF StartsWith(raw_path, P_items_slash) /\ method = DELETE THEN "delete"
  ELSE "unsupported"

Unsupported(req) ==
  resp(400, PyDict("message" :> PyText("Unsupported route")
                   @@ "path" :> PyStr(req.raw_path)
                   @@ "method" :> PyStr(req.method)))

Dispatch(req, fresh) ==
  LET op == Route(req.method, req.raw_path)
  IN CASE op = "list" -> list_items
       [] op = "create" -> create_item(req.data, fresh)
       [] op = "read" -> read_item(req.item_id)
       [] op = "update" -> update_item(req.item_id, req.data)
       [] op = "delete" -> delete_item(req.item_id)
       [] OTHER -> Return(Unsupported(req))

\* the ClientError clause without the reported status
ClientErrorResp500(ce) ==
  resp(500, PyDict("message" :> PyText("DynamoDB error") @@ "error" :> PyText(ce.exc)))

\* lines 135-138
ClientErrorResp(ce) ==
  resp(DictGet(DictGet(ce.response, "ResponseMetadata", EmptyDict),
               "HTTPStatusCode", PyInt(500)).n,
       PyDict("message" :> PyText("DynamoDB error") @@ "error" :> PyText(ce.exc)))

\* lines 140-142
InternalErrorResp(e) ==
  resp(500, PyDict("message" :> PyText("Internal error") @@ "error" :> PyText(e.exc)))

\* the except clauses, in order
HandleException(e) ==
  IF e.exc = "ClientError" THEN ClientErrorResp(e) ELSE InternalErrorResp(e)

(***************************************************************************)
(* The storage collaborator: one table keyed by "id" (src/app.py 13-15).   *)
(***************************************************************************)
PyDecimal(milli) == [t |-> "decimal", milli |-> milli]

\* boto3 stores a Python int as a DynamoDB number and hands every number back
\* as a decimal.Decimal
ToDynamo(item) ==
  PyDict([k \in DOMAIN item.d |->
            IF item.d[k].t = "int" THEN PyDecimal(item.d[k].n * 1000) ELSE item.d[k]])

\* put_item: the item replaces whatever is stored under its key
TablePut(tbl, key, item) ==
  [k \in DOMAIN tbl \cup {key} |-> IF k = key THEN ToDynamo(item) ELSE tbl[k]]

\* delete_item: no error when the key is not there
TableDelete(tbl, key) == [k \in DOMAIN tbl \ {key} |-> tbl[k]]

\* get_item: the response has no "Item" when the key is not there
TableGet(tbl, key) ==
  IF key \in DOMAIN tbl THEN PyDict("Item" :> tbl[key]) ELSE EmptyDict

Min(a, b) == IF a <= b THEN a ELSE b

\* scan(Limit=50): all items, or 50 of them that the table chooses
ScanResults(tbl) ==
  LET n == Min(Cardinality(DOMAIN tbl), ScanLimit)
  IN { PyDict("Items" :> PyItems({tbl[k] : k \in ks}) @@ "Count" :> PyInt(n)) :
         ks \in { q \in SUBSET DOMAIN tbl : Cardinality(q) = n } }

\* what a failing storage call raises: a botocore ClientError whose response
\* carries ResponseMetadata.HTTPStatusCode or not, or an error that is no
\* ClientError (no connection to the endpoint)
StorageErrors ==
  { [exc |-> "ClientError",
     response |-> PyDict("ResponseMetadata" :> PyDict("HTTPStatusCode" :> PyInt(400)))],
    [exc |-> "ClientError", response |-> PyDict("ResponseMetadata" :> EmptyDict)],
    [exc |-> "ClientError", response |-> EmptyDict],
    [exc |-> "EndpointConnectionError", response |-> EmptyDict] }

\* str(uuid.uuid4()): an identifier not handed out before
RECURSIVE Digits(_)
Digits(n) ==
  LET d == CASE n % 10 = 0 -> "0" [] n % 10 = 1 -> "1" [] n % 10 = 2 -> "2"
             [] n % 10 = 3 -> "3" [] n % 10 = 4 -> "4" [] n % 10 = 5 -> "5"
             [] n % 10 = 6 -> "6" [] n % 10 = 7 -> "7" [] n % 10 = 8 -> "8"
             [] OTHER -> "9"
  IN IF n < 10 THEN <<d>> ELSE Append(Digits(n \div 10), d)

Uuid4(n) == <<"u">> \o Digits(n)

(***************************************************************************)
(* Events.                                                                 *)
(***************************************************************************)
Absent == [t |-> "absent"]
Opt(k, x) == IF x.t = "absent" THEN <<>> ELSE k :> x
OptStr(k, x) == IF x = <<"absent">> THEN <<>> ELSE k :> PyStr(x)
NoStr == <<"absent">>

\* the gateway shapes: HTTP API v2, REST (legacy), a bare legacy event without
\* requestContext
Shapes == {"v2", "legacy", "bare"}
\* legacy events whose requestContext or whose requestContext.http is null
NullShapes == {"nullctx", "nullhttp"}

BaseEvent(shape, m, p, st) ==
  CASE shape = "v2" ->
         "requestContext" :> PyDict("http" :> PyDict(OptStr("method", m)) @@ OptStr("stage", st))
         @@ OptStr("rawPath", p)
    [] shape = "legacy" ->
         "requestContext" :> PyDict(OptStr("stage", st))
         @@ OptStr("httpMethod", m) @@ OptStr("path", p)
    [] shape = "bare" -> OptStr("httpMethod", m) @@ OptStr("path", p)
    [] shape = "nullctx" ->
         "requestContext" :> PyNone @@ OptStr("httpMethod", m) @@ OptStr("path", p)
    [] OTHER ->
         "requestContext" :> PyDict("http" :> PyNone @@ OptStr("stage", st))
         @@ OptStr("httpMethod", m) @@ OptStr("path", p)

MkEvent(shape, m, p, st, body, b64, pp) ==
  PyDict(BaseEvent(shape, m, p, st) @@ Opt("body", body)
         @@ Opt("isBase64Encoded", b64) @@ Opt("pathParameters", pp))

Methods == {GET, POST, PUT, DELETE, OPTIONS, PATCH, get_lc, options_lc}
Paths == {P_items, P_items_slash, P_items_a1, P_prod_items_a1,
          P_prod_items, P_prod, P_products_a1, P_proditems_a1, P_other}
Stages == {NoStr, S_prod}
Bodies == {PyNone, PyText(T_name), PyText(T_a1), PyText(T_zzz), PyText(T_emptyid),
           PyText(T_nullid), PyText(T_list), PyText(T_null), PyText(T_bad),
           PyText(T_empty), PyText(B64_zzz)}

\* every shape with every method, path and stage, without a body
RoutingEvents ==
  { MkEvent(sh, m, p, st, Absent, Absent, Absent) :
      sh \in Shapes, m \in Methods \cup {NoStr}, p \in Paths \cup {NoStr}, st \in Stages }

\* events with a null where the gateway puts a mapping
MalformedEvents ==
  { MkEvent(sh, m, p, NoStr, Absent, Absent, Absent) :
      sh \in NullShapes, m \in {GET, POST, OPTIONS}, p \in {P_items, P_items_a1, P_other} }

\* creates and updates with every body, flagged base64 or not
BodyEvents ==
  { MkEvent(sh, m, p, NoStr, b, f, Absent) :
      sh \in {"legacy"}, m \in {POST, PUT}, p \in {P_items, P_items_a1},
      b \in Bodies, f \in {Absent, PyBool(TRUE)} }

\* reads and deletes with pathParameters
IdEvents ==
  { MkEvent(sh, m, p, NoStr, Absent, Absent, pp) :
      sh \in {"v2", "legacy"}, m \in {GET, DELETE},
      p \in {P_items_slash, P_items_a1, P_items_a1_x},
      pp \in {PyNone, EmptyDict, PyDict("id" :> PyStr(Id_zzz)), PyDict("id" :> PyStr(<<>>))} }

Events == RoutingEvents \cup MalformedEvents \cup BodyEvents \cup IdEvents

\* the requests that race on one key in SpecConc
ConcEvents ==
  { MkEvent("legacy", GET, P_items_a1, NoStr, Absent, Absent, Absent),
    MkEvent("legacy", DELETE, P_items_a1, NoStr, Absent, Absent, Absent),
    MkEvent("legacy", PUT, P_items_a1, NoStr, PyText(T_name), Absent, Absent),
    MkEvent("v2", PUT, P_items_a1, NoStr, PyText(T_zzz), Absent, Absent),
    MkEvent("v2", POST, P_items, NoStr, PyText(T_a1), Absent, Absent),
    MkEvent("v2", GET, P_items, NoStr, Absent, Absent, Absent) }

Procs == 1..NumProcs

(***************************************************************************)
(* One invocation.  pc is "idle" (no event yet), "calling" (handler is at  *)
(* its storage call) or "done" (handler returned or raised).               *)
(*   stage    how far handler got: "log" (the log call raised), "options", *)
(*            "normalize" (normalize_event raised), "routed"               *)
(*   op       the operation the router selected                            *)
(*   resps    the responses handler returned, in order                     *)
(*   raised   TRUE when an exception left handler                          *)
(*   calls    the storage calls issued so far                              *)
(*   storage  "none", "ok" or "error": how the storage call ended          *)
(*   err      what the storage call raised                                 *)
(*   before, after: the table just before and just after a put_item or a   *)
(*            delete_item                                                  *)
(*   seen     hist, as far as it is about the key, just before a get_item  *)
(***************************************************************************)
NoReq == [method |-> <<>>, raw_path |-> <<>>, data |-> PyNone, item_id |-> PyNone]
NoCall == Call("none", NoKey, PyNone, PyNone)

IdleProc ==
  [pc |-> "idle", event |-> EmptyDict, stage |-> "none", op |-> "none", req |-> NoReq,
   call |-> NoCall, resps |-> <<>>, raised |-> FALSE, calls |-> 0, storage |-> "none",
   err |-> [exc |-> "none", response |-> EmptyDict],
   usedUuid |-> FALSE, before |-> <<>>, after |-> <<>>, seen |-> <<>>]

\* handler from its first line to its first storage call, or to its end when
\* it issues none
HandlerStart(event, fresh) ==
  LET started == [IdleProc EXCEPT !.event = event, !.pc = "done"]
  IN IF ~LogSummary(event).ok
     THEN [started EXCEPT !.stage = "log", !.raised = TRUE]
     ELSE IF IsOptionsRequest(event)
     THEN [started EXCEPT !.stage = "options", !.resps = <<resp(200, EmptyDict)>>]
     ELSE
     LET n == normalize_event(event)
     IN IF ~n.ok
        THEN [started EXCEPT !.stage = "normalize", !.resps = <<HandleException(n)>>]
        ELSE
        LET step == Dispatch(n.val, fresh)
            routed == [started EXCEPT !.stage = "routed", !.req = n.val,
                                      !.op = Route(n.val.method, n.val.raw_path)]
        IN IF step.kind = "return"
           THEN [routed EXCEPT !.resps = <<step.resp>>]
           ELSE [routed EXCEPT !.pc = "calling", !.call = step,
                               !.usedUuid = /\ step.api = "put_item"
                                            /\ step.key = fresh]

\* the handler is invoked with an event and runs up to its storage call
Receive(p, event) ==
  /\ procs[p].pc = "idle"
  /\ LET fresh == Uuid4(Len(generated) + 1)
         next == HandlerStart(event, fresh)
     IN /\ next.usedUuid => Len(generated) < MaxUuid
        /\ procs' = [procs EXCEPT ![p] = next]
        /\ generated' = IF next.usedUuid THEN Append(generated, fresh) ELSE generated
  /\ UNCHANGED <<table, hist>>

\* the bookkeeping of a storage call that returned
Called(pr, r) ==
  [pr EXCEPT !.pc = "done", !.calls = @ + 1, !.storage = "ok", !.resps = Append(@, r)]

\* the same for a call that wrote: the table before and after it
Wrote(pr, tbl, r) == [Called(pr, r) EXCEPT !.before = table, !.after = tbl]

\* hist as far as it is about key
HistOf(key) == [k \in DOMAIN hist \cap {key} |-> hist[k]]

\* TABLE.put_item(Item=item) of create_item and update_item returns
PutItem(p) ==
  LET pr == procs[p]
      tbl == TablePut(table, pr.call.key, pr.call.item)
  IN /\ pr.pc = "calling"
     /\ pr.call.api = "put_item"
     /\ table' = tbl
     /\ hist' = [k \in DOMAIN hist \cup {pr.call.key} |->
                   IF k = pr.call.key THEN [kind |-> "put", item |-> pr.call.item]
                   ELSE hist[k]]
     /\ procs' = [procs EXCEPT ![p] = Wrote(pr, tbl, pr.call.ret)]
     /\ UNCHANGED generated

\* TABLE.get_item(Key={"id": item_id}) of read_item returns
GetItem(p) ==
  LET pr == procs[p]
  IN /\ pr.pc = "calling"
     /\ pr.call.api = "get_item"
     /\ procs' = [procs EXCEPT ![p] =
                    [Called(pr, read_item_result(TableGet(table, pr.call.key)))
                       EXCEPT !.seen = HistOf(pr.call.key)]]
     /\ UNCHANGED <<table, hist, generated>>

\* TABLE.delete_item(Key={"id": item_id}) of delete_item returns
DeleteItem(p) ==
  LET pr == procs[p]
      tbl == TableDelete(table, pr.call.key)
  IN /\ pr.pc = "calling"
     /\ pr.call.api = "delete_item"
     /\ table' = tbl
     /\ hist' = [k \in DOMAIN hist \cup {pr.call.key} |->
                   IF k = pr.call.key THEN [kind |-> "delete", item |-> PyNone]
                   ELSE hist[k]]
     /\ procs' = [procs EXCEPT ![p] = Wrote(pr, tbl, pr.call.ret)]
     /\ UNCHANGED generated

\* TABLE.scan(Limit=50) of list_items returns
Scan(p) ==
  LET pr == procs[p]
  IN /\ pr.pc = "calling"
     /\ pr.call.api = "scan"
     /\ \E res \in ScanResults(table) :
          procs' = [procs EXCEPT ![p] = Called(pr, list_items_result(res))]
     /\ UNCHANGED <<table, hist, generated>>

\* the storage call raises; handler's except clauses turn it into a response
StorageFails(p) ==
  LET pr == procs[p]
  IN /\ pr.pc = "calling"
     /\ \E e \in StorageErrors :
          procs' = [procs EXCEPT ![p] =
                      [pr EXCEPT !.pc = "done", !.calls = @ + 1, !.storage = "error",
                                 !.err = e,
                                 !.resps = Append(@, HandleException(e))]]
     /\ UNCHANGED <<table, hist, generated>>

\* the execution environment is free for its next event
Finish(p) ==
  /\ procs[p].pc = "done"
  /\ procs' = [procs EXCEPT ![p] = IdleProc]
  /\ UNCHANGED <<table, hist, generated>>

Init ==
  /\ table = <<>>
  /\ hist = <<>>
  /\ generated = <<>>
  /\ procs = [p \in Procs |-> IdleProc]

\* one execution environment, every event
Next ==
  \/ \E e \in Events : Receive(1, e)
  \/ PutItem(1)
  \/ GetItem(1)
  \/ DeleteItem(1)
  \/ Scan(1)
  \/ StorageFails(1)
  \/ Finish(1)

Spec == Init /\ [][Next]_vars

\* NumProcs execution environments whose invocations interleave at their
\* storage calls
NextConc ==
  \E p \in Procs :
    \/ \E e \in ConcEvents : Receive(p, e)
    \/ PutItem(p)
    \/ GetItem(p)
    \/ DeleteItem(p)
    \/ Scan(p)
    \/ StorageFails(p)
    \/ Finish(p)

SpecConc == Init /\ [][NextConc]_vars

(***************************************************************************)
(* Properties.                                                             *)
(***************************************************************************)
Finished(p) == procs[p].pc = "done"

\* handler returned exactly the response r and issued no storage call
AnsweredWithoutStorage(pr, r) ==
  /\ pr.pc = "done"
  /\ ~pr.raised
  /\ pr.resps = <<r>>
  /\ pr.calls = 0
  /\ pr.call.api = "none"

Rejected(pr, msg) == AnsweredWithoutStorage(pr, resp(400, Message(msg)))

\* C1: every invocation, whatever its event, ends with exactly one response
\* returned and no exception leaving handler.
C1_AlwaysOneResponse ==
  \A p \in Procs :
    Finished(p) => ~procs[p].raised /\ Len(procs[p].resps) = 1

\* the route table of the specification
RouteTable(method, path) ==
  CASE path = P_items /\ method = GET -> "list"
    [] path = P_items /\ method = POST -> "create"
    [] StartsWith(path, P_items_slash) /\ method = GET -> "read"
    [] StartsWith(path, P_items_slash) /\ method = PUT -> "update"
    [] StartsWith(path, P_items_slash) /\ method = DELETE -> "delete"
    [] OTHER -> "unsupported"

\* what handler did is what the operation named want does first: its storage
\* call, or its own validation error
Entered(pr, want) ==
  CASE want = "list" -> pr.call.api = "scan"
    [] want = "create" -> \/ pr.call.api = "put_item" /\ pr.call.ret.statusCode = 201
                          \/ Rejected(pr, "Invalid JSON")
    [] want = "read" -> \/ pr.call.api = "get_item"
                        \/ Rejected(pr, "Missing id")
    [] want = "update" -> \/ pr.call.api = "put_item" /\ pr.call.ret.statusCode = 200
                          \/ Rejected(pr, "Missing id")
                          \/ Rejected(pr, "Invalid JSON")
    [] want = "delete" -> \/ pr.call.api = "delete_item"
                          \/ Rejected(pr, "Missing id")
    [] OTHER ->
         AnsweredWithoutStorage(pr,
           resp(400, PyDict("message" :> PyText("Unsupported route")
                            @@ "path" :> PyStr(pr.req.raw_path)
                            @@ "method" :> PyStr(pr.req.method))))

\* C2: a request that is no OPTIONS request and that normalizes to (method,
\* path) enters the operation the route table gives for (method, path); any
\* other pair is answered 400 "Unsupported route" with the path and the
\* method, without a storage call.
C2_RouteTable ==
  \A p \in Procs :
    procs[p].stage = "routed" =>
      Entered(procs[p], RouteTable(procs[p].req.method, procs[p].req.raw_path))

C2_Witness ==
  \E p \in Procs :
    /\ Finished(p)
    /\ procs[p].stage = "routed"
    /\ procs[p].req.raw_path = P_other
    /\ procs[p].req.method = GET
    /\ procs[p].resps[1].statusCode = 400

\* the raw method of the event, in either shape, is OPTIONS
RawMethodIsOptions(event) ==
  \/ IsStr(DictGet(event, "httpMethod", PyNone), OPTIONS)
  \/ LET ctx == DictGet(event, "requestContext", PyNone)
     IN /\ IsDict(ctx)
        /\ IsDict(DictGet(ctx, "http", PyNone))
        /\ IsStr(DictGet(ctx.d["http"], "method", PyNone), OPTIONS)

\* C3: an OPTIONS request, in either event shape and to any path, is answered
\* 200 with the body {} before the event is normalized and without a storage
\* call.
C3_OptionsShortCircuit ==
  \A p \in Procs :
    Finished(p) /\ RawMethodIsOptions(procs[p].event) =>
      /\ AnsweredWithoutStorage(procs[p], resp(200, EmptyDict))
      /\ procs[p].stage = "options"

\* the fields of a request body other than id
OtherFields(data) == DOMAIN data.d \ {"id"}

\* C4: every stored item carries the key it is stored under as its id; an
\* update of k answers 200 with id k and leaves under k exactly id k and the
\* other fields of the body, whatever id the body names and whatever was
\* stored under k before.
C4_IdIsKey ==
  /\ \A k \in DOMAIN table : table[k].d["id"] = PyStr(k)
  /\ \A p \in Procs :
       LET pr == procs[p]
           k == pr.req.item_id.v
           data == pr.req.data
           r == pr.resps[1]
       IN Finished(p) /\ pr.op = "update" /\ pr.storage = "ok" =>
            /\ Len(pr.resps) = 1
            /\ r.statusCode = 200
            /\ r.body.d["id"] = PyStr(k)
            /\ k \in DOMAIN pr.after
            /\ pr.after[k].d["id"] = PyStr(k)
            /\ DOMAIN pr.after[k].d = {"id"} \cup OtherFields(data)
            /\ DOMAIN r.body.d = {"id"} \cup OtherFields(data)
            /\ \A f \in OtherFields(data) :
                 /\ r.body.d[f] = JsonDumps(data.d[f])
                 /\ JsonDumps(pr.after[k].d[f]) = JsonDumps(data.d[f])

C4_Witness ==
  \E p \in Procs :
    LET pr == procs[p]
        k == pr.req.item_id.v
    IN /\ Finished(p) /\ pr.op = "update" /\ pr.storage = "ok"
       /\ "id" \in DOMAIN pr.req.data.d
       /\ pr.req.data.d["id"] = PyStr(Id_zzz)
       /\ k = Id_a1
       /\ k \in DOMAIN pr.before
       /\ "name" \in DOMAIN pr.before[k].d
       /\ "name" \notin DOMAIN pr.after[k].d

\* C5: a read of k whose get_item returns is answered 404 "Not found" exactly
\* when, at that call, k was never written or its last write was followed by
\* a delete, and otherwise 200 with the whole item of the last create or
\* update of k, however the invocations interleave.
C5_ReadLastWrite ==
  \A p \in Procs :
    LET pr == procs[p]
        k == pr.call.key
        r == pr.resps[1]
    IN Finished(p) /\ pr.op = "read" /\ pr.storage = "ok" =>
         /\ Len(pr.resps) = 1
         /\ IF k \notin DOMAIN pr.seen \/ pr.seen[k].kind = "delete"
            THEN r = resp(404, Message("Not found"))
            ELSE /\ r.statusCode = 200
                 /\ r.body = JsonDumps(pr.seen[k].item)

\* a read answered 200 while a write of the same key by another invocation
\* is in flight, after the key had been deleted and written again
C5_Witness ==
  \E p, q \in Procs :
    /\ p # q
    /\ Finished(p) /\ procs[p].op = "read" /\ procs[p].storage = "ok"
    /\ procs[p].resps[1].statusCode = 200
    /\ "qty" \in DOMAIN procs[p].resps[1].body.d
    /\ procs[q].pc = "calling"
    /\ procs[q].call.api = "put_item"
    /\ procs[q].call.key = procs[p].call.key

NoDuplicates(seq) == \A i, j \in 1..Len(seq) : seq[i] = seq[j] => i = j

\* C6: a create with a mapping body whose put_item returns is answered 201
\* with the stored item: its id is the body's id when that is present and
\* non-empty, else a generated non-empty identifier, no two generated
\* identifiers being equal; the other fields are the body's; the item is
\* what the table holds under that id afterwards.
C6_CreateStoresItem ==
  /\ NoDuplicates(generated)
  /\ \A p \in Procs :
       LET pr == procs[p]
           data == pr.req.data
           r == pr.resps[1]
           bid == DictGet(data, "id", PyNone)
           id == r.body.d["id"]
       IN Finished(p) /\ pr.op = "create" /\ IsDict(data) /\ pr.storage = "ok" =>
            /\ Len(pr.resps) = 1
            /\ r.statusCode = 201
            /\ Truthy(bid) => id = bid
            /\ ~Truthy(bid) =>
                 /\ id.t = "str" /\ id.v # <<>>
                 /\ \E i \in 1..Len(generated) : generated[i] = id.v
            /\ DOMAIN r.body.d = {"id"} \cup OtherFields(data)
            /\ \A f \in OtherFields(data) : r.body.d[f] = JsonDumps(data.d[f])
            /\ id.v \in DOMAIN pr.after
            /\ JsonDumps(pr.after[id.v]) = r.body

\* the second create without an id stored its item under a second generated id
C6_Witness ==
  \E p \in Procs :
    LET pr == procs[p]
    IN /\ Finished(p) /\ pr.op = "create" /\ pr.storage = "ok"
       /\ pr.usedUuid
       /\ Len(generated) = 2
       /\ "name" \in DOMAIN pr.req.data.d
       /\ generated[1] \in DOMAIN pr.before
       /\ generated[2] \in DOMAIN pr.after

\* the body of the event is a text that json.loads rejects
BodyMalformed(event) ==
  LET body == DictGet(event, "body", PyNone)
  IN /\ body.t = "text"
     /\ body.s # ""
     /\ ~Truthy(DictGet(event, "isBase64Encoded", PyNone))
     /\ ~JsonLoads(body.s).ok

MissingIdRejected(pr) ==
  pr.op \in {"read", "update", "delete"} /\ ~Truthy(pr.req.item_id) =>
    Rejected(pr, "Missing id")

\* C7 as claimed: without a resolved identifier read, update and delete
\* answer 400 "Missing id", and create and update answer 400 "Invalid JSON"
\* to a body that is malformed or is not a JSON mapping, with no storage call.
C7_ValidationAsClaimed ==
  \A p \in Procs :
    LET pr == procs[p]
    IN pr.stage = "routed" =>
         /\ MissingIdRejected(pr)
         /\ (/\ pr.op \in {"create", "update"}
             /\ pr.op = "update" => Truthy(pr.req.item_id)
             /\ BodyMalformed(pr.event) \/ ~IsDict(pr.req.data))
            => Rejected(pr, "Invalid JSON")

\* C7 amended: without a resolved identifier read, update and delete answer
\* 400 "Missing id"; create, and update with an identifier, answer 400
\* "Invalid JSON" to a body that parses to a JSON value that is no mapping;
\* neither issues a storage call.  A body json.loads rejects is taken as {}.
C7_Validation ==
  \A p \in Procs :
    LET pr == procs[p]
    IN pr.stage = "routed" =>
         /\ MissingIdRejected(pr)
         /\ (/\ pr.op \in {"create", "update"}
             /\ pr.op = "update" => Truthy(pr.req.item_id)
             /\ ~IsDict(pr.req.data))
            => Rejected(pr, "Invalid JSON")
         /\ BodyMalformed(pr.event) => pr.req.data = EmptyDict

C7_Witness ==
  \E p \in Procs :
    /\ procs[p].op = "update" /\ procs[p].req.data = PyList
    /\ Truthy(procs[p].req.item_id)
    /\ Rejected(procs[p], "Invalid JSON")

\* the status a ClientError reports, 500 when it reports none
ReportedStatus(e) ==
  IF /\ "ResponseMetadata" \in DOMAIN e.response.d
     /\ "HTTPStatusCode" \in DOMAIN e.response.d["ResponseMetadata"].d
  THEN e.response.d["ResponseMetadata"].d["HTTPStatusCode"].n
  ELSE 500

HasMessage(r, m) == "message" \in DOMAIN r.body.d /\ r.body.d["message"] = PyText(m)

C9_DeleteFrame ==
  \A p \in Procs :
    LET pr == procs[p]
        k == pr.req.item_id.v
    IN /\ Finished(p) /\ pr.op = "delete" /\ Truthy(pr.req.item_id)
       /\ pr.storage # "error"
       => /\ pr.calls = 1
          /\ pr.resps = <<resp(204, EmptyDict)>>
          /\ k \notin DOMAIN pr.after
          /\ DOMAIN pr.after = DOMAIN pr.before \ {k}
          /\ \A j \in DOMAIN pr.after : pr.after[j] = pr.before[j]

\* a delete of a key that is not stored, with another key stored
C9_Witness ==
  \E p \in Procs :
    LET pr == procs[p]
    IN /\ Finished(p) /\ pr.op = "delete" /\ pr.storage = "ok"
       /\ pr.req.item_id.v \notin DOMAIN pr.before
       /\ DOMAIN pr.before # {}
       /\ pr.resps[1].statusCode = 204

\* the raw path and the stage the event declares
RawPathOf(event) ==
  PyOr(PyOr(DictGet(event, "rawPath", PyNone), DictGet(event, "path", PyNone)),
       PyStr(Slash)).v

StageOf(event) == DictGet(DictGet(event, "requestContext", EmptyDict), "stage", PyNone)

\* the path without its first segment when that segment is the stage
StripStageSegment(path, stage) ==
  LET parts == Split(path)
  IN IF Truthy(stage) /\ Len(parts) >= 2 /\ parts[1] = <<>> /\ parts[2] = stage.v
     THEN LET rest == SliceFrom(path, Len(stage.v) + 1)
          IN IF rest = <<>> THEN Slash ELSE rest
     ELSE path

\* C10: the normalized path is the raw path without its first segment when
\* the event declares a stage and that segment is the stage, and the raw path
\* itself otherwise.
C10_StageSegmentOnly ==
  \A p \in Procs :
    procs[p].stage = "routed" =>
      procs[p].req.raw_path =
        StripStageSegment(RawPathOf(procs[p].event), StageOf(procs[p].event))

====
